---- MODULE Spec2Model ----
(***************************************************************************)
(* Activation-code lifecycle of firetrack (db/src/activation_code.rs) and  *)
(* the user activation it drives (db/src/user.rs).                         *)
(*                                                                         *)
(* The two database tables are sets of rows, the clock is a number of      *)
(* minutes, and every public function of the module is an operator that    *)
(* takes the tables it reads and returns its result with the tables it     *)
(* leaves behind.  Spec runs each call as one step (a single connection,   *)
(* as in the unit tests); SpecConc splits get and activate_user at their   *)
(* database statements and interleaves two requests.                       *)
(***************************************************************************)
EXTENDS Integers, Sequences, FiniteSets, TLC

VARIABLES users, activation_codes, now, last, prev, incs, pc, req

vars == <<users, activation_codes, now, last, prev, incs, pc, req>>

(***************************************************************************)
(* Program constants.                                                      *)
(***************************************************************************)
MIN_VALUE == 100000
MAX_VALUE == 999999
MAX_ATTEMPTS == 5
\* time::Duration::minutes(30) in create().
ExpirationMinutes == 30

(***************************************************************************)
(* Bounds of the model.                                                    *)
(***************************************************************************)
\* The clock advances by one expiration period at a time, this many times:
\* a code is seen before, exactly at and after its expiration_time.
MaxTicks == 2

\* The last instant the clock type can hold, in minutes (scaled down).
MAX_DATETIME == 3000

Emails == {"a@x", "b@x"}

\* The requests in flight at a time in SpecConc, and the users they are for.
Procs == {"p1", "p2"}
ConcEmails == {"a@x"}

\* The values the sampled random source can return: the two ends of the
\* code range.
thread_rng == {MIN_VALUE, MAX_VALUE}

\* The codes a caller submits: one that can be stored and one that cannot.
SubmittedCodes == {MIN_VALUE, MAX_VALUE}

(***************************************************************************)
(* Option<T>: None or Some(x).                                             *)
(***************************************************************************)
None == << >>
Some(x) == <<x>>
IsSome(o) == o # None
Unwrap(o) == o[1]

(***************************************************************************)
(* db::user                                                                *)
(***************************************************************************)
User(email, activated) == [email |-> email, activated |-> activated]

\* user::read: the row of the users table with this email.
user_read(utable, email) ==
    IF \E u \in utable : u.email = email
    THEN Some(CHOOSE u \in utable : u.email = email)
    ELSE None

\* user::create: refuses an existing email, inserts with activated = false.
user_create(utable, email) ==
    IF \E u \in utable : u.email = email
    THEN [res |-> "UserWithEmailAlreadyExists", ret |-> None, users |-> utable]
    ELSE [res |-> "Ok", ret |-> Some(User(email, FALSE)),
          users |-> utable \cup {User(email, FALSE)}]

\* user::delete: UserNotFound without the user, else DELETE FROM users WHERE
\* email = ...
user_delete(utable, email) ==
    IF ~ \E u \in utable : u.email = email
    THEN [res |-> "UserNotFound", users |-> utable]
    ELSE [res |-> "Ok", users |-> {u \in utable : u.email # email}]

\* The mutant of user_activate: the stored flag is flipped.
user_activate_toggles(utable, user) ==
    IF ~ \E u \in utable : u.email = user.email
    THEN [res |-> "ActivationFailed", ret |-> None, users |-> utable]
    ELSE [res |-> "Ok", ret |-> Some(User(user.email, ~user.activated)),
          users |-> {IF u.email = user.email THEN User(u.email, ~user.activated) ELSE u :
                        u \in utable}]

\* The mutant of user_activate: the flag is returned set but never stored.
user_activate_not_stored(utable, user) ==
    [res |-> "Ok", ret |-> Some(User(user.email, TRUE)), users |-> utable]

\* user::activate: returns an activated user as is, else UPDATE users SET
\* activated = true WHERE email = ... RETURNING, which fails on no row.
user_activate(utable, user) ==
    IF user.activated
    THEN [res |-> "Ok", ret |-> Some(user), users |-> utable]
    ELSE IF ~ \E u \in utable : u.email = user.email
    THEN [res |-> "ActivationFailed", ret |-> None, users |-> utable]
    ELSE [res |-> "Ok", ret |-> Some(User(user.email, TRUE)),
          users |-> {IF u.email = user.email THEN User(u.email, TRUE) ELSE u : u \in utable}]

(***************************************************************************)
(* db::activation_code                                                     *)
(***************************************************************************)
ActivationCode(email, code, expiration_time, attempts) ==
    [email |-> email, code |-> code, expiration_time |-> expiration_time,
     attempts |-> attempts]

\* ActivationCode::is_expired: expiration_time.lt(now).
is_expired(c, t) == c.expiration_time < t

\* ActivationCode::attempts_exceeded: attempts.gt(MAX_ATTEMPTS).
attempts_exceeded(c) == c.attempts > MAX_ATTEMPTS

\* rand 0.7 Rng::gen_range(low, high): a value of the half-open [low, high).
gen_range(rng, low, high) == {v \in rng : low <= v /\ v < high}

\* The result of a function returning Result<ActivationCode, _>, with the
\* table it leaves behind and the statement it ran on it ("none", "insert"
\* for the upsert of create, "update" for the increment).
CodeResult(res, ret, table, stmt) ==
    [res |-> res, ret |-> ret, table |-> table, stmt |-> stmt]

\* dsl::activation_codes.find(email).first(): Ok with the row, Err(NotFound)
\* without one, and another Err when the statement fails (fails = TRUE).
find_first(table, email, fails) ==
    IF fails
    THEN [ok |-> FALSE, err |-> "DatabaseError"]
    ELSE IF \E r \in table : r.email = email
    THEN [ok |-> TRUE, row |-> CHOOSE r \in table : r.email = email]
    ELSE [ok |-> FALSE, err |-> "NotFound"]

\* The match of read on the result of the query: Ok(c) => Some(c),
\* Err(_) => None.
read_match(activation_code) ==
    IF activation_code.ok THEN Some(activation_code.row) ELSE None

\* read, with a statement that does not fail.
read(table, email) == read_match(find_first(table, email, FALSE))

\* The mutant of assert_not_activated: the flag is not looked at.
assert_not_activated_skipped(user) == TRUE

\* assert_not_activated: TRUE for Ok(()), FALSE for Err(UserAlreadyActivated).
assert_not_activated(user) == ~user.activated

\* DateTime::checked_add_signed: None when the sum cannot be represented.
checked_add_signed(t, duration) ==
    IF t + duration <= MAX_DATETIME THEN Some(t + duration) ELSE None

\* The mutant of create: the sum is stored without the overflow check.
create_unchecked(table, email, t, random_code) ==
    LET row == ActivationCode(email, random_code, t + ExpirationMinutes, 0)
    IN  CodeResult("Ok", Some(row), {r \in table : r.email # email} \cup {row}, "insert")

\* The mutant of create: the expiration time is the time of creation.
create_no_lifetime(table, email, t, random_code) ==
    LET row == ActivationCode(email, random_code, t, 0)
    IN  CodeResult("Ok", Some(row), {r \in table : r.email # email} \cup {row}, "insert")

\* The mutant of create: a plain INSERT, the stored row stays.
create_plain_insert(table, email, t, random_code) ==
    LET row == ActivationCode(email, random_code, t + ExpirationMinutes, 0)
    IN  CodeResult("Ok", Some(row), table \cup {row}, "insert")

\* The mutant of create: on conflict the stored expiration_time is kept.
create_keeps_expiration(table, email, t, random_code) ==
    LET row == IF read(table, email) = None
               THEN ActivationCode(email, random_code, t + ExpirationMinutes, 0)
               ELSE ActivationCode(email, random_code,
                                   Unwrap(read(table, email)).expiration_time, 0)
    IN  CodeResult("Ok", Some(row), {r \in table : r.email # email} \cup {row}, "insert")

\* The mutant of create: on conflict the stored attempts are kept.
create_keeps_attempts(table, email, t, random_code) ==
    LET row == ActivationCode(email, random_code, t + ExpirationMinutes,
                              IF read(table, email) = None THEN 0
                              ELSE Unwrap(read(table, email)).attempts)
    IN  CodeResult("Ok", Some(row), {r \in table : r.email # email} \cup {row}, "insert")

\* create: the expiration time (ExpirationTimeOverflow when it cannot be
\* represented), then INSERT ... ON CONFLICT (email) DO UPDATE SET code,
\* expiration_time, attempts = 0 RETURNING the row.
create(table, email, t, random_code) ==
    LET expiration_time == checked_add_signed(t, ExpirationMinutes)
    IN  IF expiration_time = None
        THEN CodeResult("ExpirationTimeOverflow", None, table, "none")
        ELSE LET row == ActivationCode(email, random_code, Unwrap(expiration_time), 0)
             IN  CodeResult("Ok", Some(row),
                            {r \in table : r.email # email} \cup {row}, "insert")

\* The mutant of update_attempts: the counter starts over after MAX_ATTEMPTS.
update_attempts_wraps(table, email) ==
    {IF r.email = email
     THEN ActivationCode(r.email, r.code, r.expiration_time,
                         IF r.attempts >= MAX_ATTEMPTS THEN 0 ELSE r.attempts + 1)
     ELSE r : r \in table}

\* The mutant of update_attempts: an UPDATE without its WHERE clause.
update_attempts_of_all(table, email) ==
    {ActivationCode(r.email, r.code, r.expiration_time, r.attempts + 1) : r \in table}

\* The statement of increase_attempt_counter: UPDATE activation_codes SET
\* attempts = attempts + 1 WHERE email = ..., one atomic statement.
update_attempts(table, email) ==
    {IF r.email = email
     THEN ActivationCode(r.email, r.code, r.expiration_time, r.attempts + 1)
     ELSE r : r \in table}

\* The mutant of increase_attempt_counter: the counter written is computed
\* from the caller's copy of the row (a read, then a separate write).
increase_attempt_counter_read_then_write(table, c) ==
    IF attempts_exceeded(c)
    THEN CodeResult("MaxAttemptsExceeded", None, table, "none")
    ELSE IF read(table, c.email) = None
    THEN CodeResult("UpdateFailed", None, table, "none")
    ELSE LET stored == Unwrap(read(table, c.email))
             written == ActivationCode(c.email, stored.code, stored.expiration_time,
                                       c.attempts + 1)
             updated == {r \in table : r.email # c.email} \cup {written}
         IN  IF attempts_exceeded(written)
             THEN CodeResult("MaxAttemptsExceeded", None, updated, "update")
             ELSE CodeResult("Ok", Some(written), updated, "update")

\* The mutant of increase_attempt_counter: no check of the row returned.
increase_attempt_counter_no_recheck(table, c) ==
    IF attempts_exceeded(c)
    THEN CodeResult("MaxAttemptsExceeded", None, table, "none")
    ELSE IF read(table, c.email) = None
    THEN CodeResult("UpdateFailed", None, table, "none")
    ELSE CodeResult("Ok", read(update_attempts(table, c.email), c.email),
                    update_attempts(table, c.email), "update")

\* The mutant of increase_attempt_counter: the row handed back is the caller's
\* copy with its counter raised, not the row the UPDATE returned.
increase_attempt_counter_returns_copy(table, c) ==
    IF attempts_exceeded(c)
    THEN CodeResult("MaxAttemptsExceeded", None, table, "none")
    ELSE IF read(table, c.email) = None
    THEN CodeResult("UpdateFailed", None, table, "none")
    ELSE LET updated == update_attempts(table, c.email)
             returned == ActivationCode(c.email, c.code, c.expiration_time,
                                        c.attempts + 1)
         IN  IF attempts_exceeded(returned)
             THEN CodeResult("MaxAttemptsExceeded", None, updated, "update")
             ELSE CodeResult("Ok", Some(returned), updated, "update")

\* The mutant of increase_attempt_counter: with no stored row the caller's
\* copy is saved with its counter raised.
increase_attempt_counter_upserts(table, c) ==
    IF attempts_exceeded(c)
    THEN CodeResult("MaxAttemptsExceeded", None, table, "none")
    ELSE IF read(table, c.email) = None
    THEN LET saved == ActivationCode(c.email, c.code, c.expiration_time, c.attempts + 1)
         IN  IF attempts_exceeded(saved)
             THEN CodeResult("MaxAttemptsExceeded", None, table \cup {saved}, "insert")
             ELSE CodeResult("Ok", Some(saved), table \cup {saved}, "insert")
    ELSE LET updated == update_attempts(table, c.email)
             returned == Unwrap(read(updated, c.email))
         IN  IF attempts_exceeded(returned)
             THEN CodeResult("MaxAttemptsExceeded", None, updated, "update")
             ELSE CodeResult("Ok", Some(returned), updated, "update")

\* increase_attempt_counter: early exit on the caller's copy, the update
\* (get_result fails when no row matches), then the check of the row returned.
increase_attempt_counter(table, c) ==
    IF attempts_exceeded(c)
    THEN CodeResult("MaxAttemptsExceeded", None, table, "none")
    ELSE IF read(table, c.email) = None
    THEN CodeResult("UpdateFailed", None, table, "none")
    ELSE LET updated == update_attempts(table, c.email)
             returned == Unwrap(read(updated, c.email))
         IN  IF attempts_exceeded(returned)
             THEN CodeResult("MaxAttemptsExceeded", None, updated, "update")
             ELSE CodeResult("Ok", Some(returned), updated, "update")

\* The mutant of get_after_read: an expired row is treated as a live one.
get_after_read_ignores_expiry(table, email, c, t, random_code) ==
    IF IsSome(c)
    THEN increase_attempt_counter(table, Unwrap(c))
    ELSE create(table, email, t, random_code)

\* get, from the match on the row read (c) on.
get_after_read(table, email, c, t, random_code) ==
    IF IsSome(c)
    THEN IF is_expired(Unwrap(c), t)
         THEN create(table, email, t, random_code)
         ELSE increase_attempt_counter(table, Unwrap(c))
    ELSE create(table, email, t, random_code)

\* get.
get(table, user, t, random_code) ==
    IF ~assert_not_activated(user)
    THEN CodeResult("UserAlreadyActivated", None, table, "none")
    ELSE get_after_read(table, user.email, read(table, user.email), t, random_code)

\* The result of activate_user, with both tables it leaves behind and the
\* statement it ran ("none", "update" for the increment, "activate").
UserResult(res, ret, table, utable, stmt) ==
    [res |-> res, ret |-> ret, table |-> table, users |-> utable, stmt |-> stmt]

\* The mutant of compare_and_activate: a match is counted as an attempt too.
compare_and_activate_counts(table, utable, user, activation_code, c) ==
    LET i == increase_attempt_counter(table, c)
    IN  IF c.code = activation_code
        THEN LET a == user_activate(utable, user)
             IN  UserResult(a.res, a.ret, i.table, a.users, "activate")
        ELSE UserResult(IF i.res = "Ok" THEN "InvalidCode" ELSE i.res,
                        None, i.table, utable, i.stmt)

\* activate_user on a row that passed the expiry and exhaustion checks: a
\* match activates the user, a mismatch increases the counter (whose error,
\* if any, is returned by `?`) and is InvalidCode.
compare_and_activate(table, utable, user, activation_code, c) ==
    IF c.code = activation_code
    THEN LET a == user_activate(utable, user)
         IN  UserResult(a.res, a.ret, table, a.users, "activate")
    ELSE LET i == increase_attempt_counter(table, c)
         IN  UserResult(IF i.res = "Ok" THEN "InvalidCode" ELSE i.res,
                        None, i.table, utable, i.stmt)

\* The mutant of activate_user_after_read: exhaustion is checked before expiry.
activate_user_after_read_exhaustion_first(table, utable, user, activation_code, c, t) ==
    IF IsSome(c)
    THEN IF attempts_exceeded(Unwrap(c))
         THEN UserResult("MaxAttemptsExceeded", None, table, utable, "none")
         ELSE IF is_expired(Unwrap(c), t)
         THEN UserResult("Expired", None, table, utable, "none")
         ELSE compare_and_activate(table, utable, user, activation_code, Unwrap(c))
    ELSE UserResult("Expired", None, table, utable, "none")

\* The mutant of activate_user_after_read: no exhaustion check before the
\* comparison.
activate_user_after_read_no_exhaustion_check(table, utable, user, activation_code, c, t) ==
    IF IsSome(c)
    THEN IF is_expired(Unwrap(c), t)
         THEN UserResult("Expired", None, table, utable, "none")
         ELSE compare_and_activate(table, utable, user, activation_code, Unwrap(c))
    ELSE UserResult("Expired", None, table, utable, "none")

\* The mutant of activate_user_after_read: a missing row is minted.
activate_user_after_read_mints(table, utable, user, activation_code, c, t) ==
    IF IsSome(c)
    THEN IF is_expired(Unwrap(c), t)
         THEN UserResult("Expired", None, table, utable, "none")
         ELSE IF attempts_exceeded(Unwrap(c))
         THEN UserResult("MaxAttemptsExceeded", None, table, utable, "none")
         ELSE compare_and_activate(table, utable, user, activation_code, Unwrap(c))
    ELSE UserResult("Expired", None,
                    create(table, user.email, t, MIN_VALUE).table, utable, "insert")

\* The mutant of activate_user_after_read: an expired row is removed.
activate_user_after_read_deletes_expired(table, utable, user, activation_code, c, t) ==
    IF IsSome(c)
    THEN IF is_expired(Unwrap(c), t)
         THEN UserResult("Expired", None, {r \in table : r.email # user.email},
                         utable, "delete")
         ELSE IF attempts_exceeded(Unwrap(c))
         THEN UserResult("MaxAttemptsExceeded", None, table, utable, "none")
         ELSE compare_and_activate(table, utable, user, activation_code, Unwrap(c))
    ELSE UserResult("Expired", None, table, utable, "none")

\* activate_user, from the match on the row read (c) on: expiry, exhaustion,
\* then the comparison.
activate_user_after_read(table, utable, user, activation_code, c, t) ==
    IF IsSome(c)
    THEN IF is_expired(Unwrap(c), t)
         THEN UserResult("Expired", None, table, utable, "none")
         ELSE IF attempts_exceeded(Unwrap(c))
         THEN UserResult("MaxAttemptsExceeded", None, table, utable, "none")
         ELSE compare_and_activate(table, utable, user, activation_code, Unwrap(c))
    ELSE UserResult("Expired", None, table, utable, "none")

\* activate_user.
activate_user(table, utable, user, activation_code, t) ==
    IF ~assert_not_activated(user)
    THEN UserResult("UserAlreadyActivated", None, table, utable, "none")
    ELSE activate_user_after_read(table, utable, user, activation_code,
                                  read(table, user.email), t)

\* The mutant of purge: a row whose expiration_time is the present instant is
\* deleted too.
purge_at_or_after(table, t) == {r \in table : ~(r.expiration_time <= t)}

\* The mutant of purge: every row is deleted.
purge_all(table, t) == {}

\* purge: DELETE FROM activation_codes WHERE expiration_time < now.
purge(table, t) == {r \in table : ~(r.expiration_time < t)}

\* The mutant of delete: the row of an activated user is kept.
delete_unless_activated(table, user) ==
    IF user.activated THEN table ELSE {r \in table : r.email # user.email}

\* The mutant of delete: no row is deleted.
delete_nothing(table, user) == table

\* delete: DELETE FROM activation_codes WHERE email = user.email.
delete(table, user) == {r \in table : r.email # user.email}

(***************************************************************************)
(* The state machine.                                                      *)
(*                                                                         *)
(* last is the call made by the latest step (its arguments, its result,    *)
(* the statement it ran) and prev the state before it, so that what a call *)
(* did is a predicate of one state.  last.nth places the call in a run of  *)
(* calls made one right after the other on a code just minted: 0 for the   *)
(* get that minted it, n for the n-th repeat get after it with only repeat *)
(* gets in between, n for the n-th activate_user after it with only        *)
(* mismatching activate_user calls in between, -1 for any other call       *)
(* (RunCap stands for that many or more).  last.c is the row the call got  *)
(* from read.  incs[e] counts the increments run on the stored row of e    *)
(* since it was minted.  pc[p] is where request p stands ("idle", or       *)
(* after the read of "get" or "activate_user") and req[p] what it holds.   *)
(* last.fault tells that the query of the call's read failed, and          *)
(* last.deleted, for a get made right after a delete for the same user,    *)
(* holds what that delete met (Some(None) when there was no row);          *)
(* last.minted_over, for an activate_user made right after a get for the   *)
(* same user that minted, holds what that mint met.                        *)
(***************************************************************************)
CallOf(op, email, user, code, c, res, ret, activated_user, stmt, nth, fault, deleted,
       minted_over) ==
    [op |-> op, email |-> email, user |-> user, code |-> code, c |-> c,
     res |-> res, ret |-> ret, activated_user |-> activated_user,
     stmt |-> stmt, nth |-> nth, fault |-> fault, deleted |-> deleted,
     minted_over |-> minted_over]

\* A call whose read did not fail and that did not come right after a delete.
Call(op, email, user, code, c, res, ret, activated_user, stmt, nth) ==
    CallOf(op, email, user, code, c, res, ret, activated_user, stmt, nth, FALSE, None,
           None)

RunCap == MAX_ATTEMPTS + 2
NextInRun(n) == IF n >= RunCap THEN RunCap ELSE n + 1

\* The place of a repeat get for email after the latest call.
NthGet(email) ==
    IF last.op = "get" /\ last.email = email /\ last.nth >= 0
    THEN NextInRun(last.nth)
    ELSE -1

\* The place of an activate_user for email after the latest call: right after
\* the mint, or after an activate_user of the run that did not match.
NthActivate(email) ==
    IF last.op = "get" /\ last.email = email /\ last.stmt = "insert"
    THEN 1
    ELSE IF /\ last.op = "activate_user" /\ last.email = email /\ last.nth >= 1
            /\ IsSome(read(activation_codes, email))
            /\ last.code # Unwrap(read(activation_codes, email)).code
    THEN NextInRun(last.nth)
    ELSE -1

Before ==
    [activation_codes |-> activation_codes, users |-> users, incs |-> incs]

\* The User values a caller can hold for an email: the row as it is stored
\* (user::read), or as it was returned when the user was created.
Snapshots(email) ==
    {u \in users : u.email = email}
        \cup {User(email, FALSE) : u \in {v \in users : v.email = email}}

IncsAfter(table, email, stmt) ==
    [e \in Emails |->
        IF read(table, e) = None THEN 0
        ELSE IF e = email /\ stmt = "insert" THEN 0
        ELSE IF e = email /\ stmt = "update" THEN incs[e] + 1
        ELSE incs[e]]

Init ==
    /\ users = {}
    /\ activation_codes = {}
    /\ now = 0
    /\ last = Call("init", "", None, 0, None, "", None, None, "none", -1)
    /\ prev = [activation_codes |-> {}, users |-> {}, incs |-> [e \in Emails |-> 0]]
    /\ incs = [e \in Emails |-> 0]
    /\ pc = [p \in Procs |-> "idle"]
    /\ req = [p \in Procs |-> None]

\* user::create (cli "user add", web register_submit).
UserCreate(email) ==
    LET r == user_create(users, email)
    IN  /\ users' = r.users
        /\ last' = Call("user_create", email, None, 0, None, r.res, None, r.ret, "none", -1)
        /\ prev' = Before
        /\ UNCHANGED <<activation_codes, now, incs, pc, req>>

\* What the delete call made right before a call for email met, if the
\* latest call was one.
AfterDelete(email) ==
    IF last.op = "delete" /\ last.email = email
    THEN Some(read(prev.activation_codes, email))
    ELSE None

\* One call of get with a User the caller holds.
Get(email) ==
    \E user \in Snapshots(email), random_code \in gen_range(thread_rng, MIN_VALUE, MAX_VALUE) :
        LET r == get(activation_codes, user, now, random_code)
        IN  /\ activation_codes' = r.table
            /\ last' = CallOf("get", email, Some(user), 0,
                              IF user.activated THEN None
                              ELSE read(activation_codes, email),
                              r.res, r.ret, None, r.stmt,
                              IF r.stmt = "insert" THEN 0
                              ELSE IF user.activated THEN -1
                              ELSE NthGet(email),
                              FALSE, AfterDelete(email), None)
            /\ prev' = Before
            /\ incs' = IncsAfter(r.table, email, r.stmt)
            /\ UNCHANGED <<users, now, pc, req>>

\* What the mint made right before a call for email met, if the latest call
\* was a get that minted.
AfterMint(email) ==
    IF last.op = "get" /\ last.email = email /\ last.stmt = "insert"
    THEN Some(read(prev.activation_codes, email))
    ELSE None

\* One call of activate_user with a User the caller holds and a submitted code.
ActivateUser(email) ==
    \E user \in Snapshots(email), activation_code \in SubmittedCodes :
        LET r == activate_user(activation_codes, users, user, activation_code, now)
        IN  /\ activation_codes' = r.table
            /\ users' = r.users
            /\ last' = CallOf("activate_user", email, Some(user), activation_code,
                              IF user.activated THEN None
                              ELSE read(activation_codes, email),
                              r.res, None, r.ret, r.stmt,
                              IF user.activated THEN -1 ELSE NthActivate(email),
                              FALSE, None, AfterMint(email))
            /\ prev' = Before
            /\ incs' = IncsAfter(r.table, email, r.stmt)
            /\ UNCHANGED <<now, pc, req>>

\* One call of purge.
Purge ==
    LET table == purge(activation_codes, now)
    IN  /\ activation_codes' = table
        /\ last' = Call("purge", "", None, 0, None, "Ok", None, None, "delete", -1)
        /\ prev' = Before
        /\ incs' = IncsAfter(table, "", "delete")
        /\ UNCHANGED <<users, now, pc, req>>

\* One call of delete with a User the caller holds.
Delete(email) ==
    \E user \in Snapshots(email) :
        LET table == delete(activation_codes, user)
        IN  /\ activation_codes' = table
            /\ last' = Call("delete", email, Some(user), 0, None, "Ok", None, None, "delete", -1)
            /\ prev' = Before
            /\ incs' = IncsAfter(table, email, "delete")
            /\ UNCHANGED <<users, now, pc, req>>

\* Time passes (chrono::Local::now() grows).
Tick ==
    /\ now < MaxTicks * ExpirationMinutes
    /\ now' = now + ExpirationMinutes
    /\ last' = Call("tick", "", None, 0, None, "", None, None, "none", -1)
    /\ prev' = Before
    /\ UNCHANGED <<users, activation_codes, incs, pc, req>>

Next ==
    \/ \E email \in Emails : UserCreate(email)
    \/ \E email \in Emails : Get(email)
    \/ \E email \in Emails : ActivateUser(email)
    \/ \E email \in Emails : Delete(email)
    \/ Purge
    \/ Tick

Spec == Init /\ [][Next]_vars

(***************************************************************************)
(* Failing reads.  The query of read can fail (connection lost, statement  *)
(* timeout); the statement that follows it on the connection, if there is  *)
(* one, can then fail as well or go through.                               *)
(***************************************************************************)
\* One call of get, by a non-activated user, whose read query fails.  The
\* create that follows fails with CreationFailed or goes through.
GetReadFails(email) ==
    \E user \in Snapshots(email), random_code \in gen_range(thread_rng, MIN_VALUE, MAX_VALUE),
       create_fails \in BOOLEAN :
        LET c == read_match(find_first(activation_codes, email, TRUE))
            r == IF create_fails
                 THEN CodeResult("CreationFailed", None, activation_codes, "none")
                 ELSE get_after_read(activation_codes, email, c, now, random_code)
        IN  /\ assert_not_activated(user)
            /\ activation_codes' = r.table
            /\ last' = CallOf("get", email, Some(user), 0, c, r.res, r.ret, None,
                              r.stmt, -1, TRUE, None, None)
            /\ prev' = Before
            /\ incs' = IncsAfter(r.table, email, r.stmt)
            /\ UNCHANGED <<users, now, pc, req>>

\* One call of activate_user, by a non-activated user, whose read query fails.
ActivateUserReadFails(email) ==
    \E user \in Snapshots(email), activation_code \in SubmittedCodes :
        LET c == read_match(find_first(activation_codes, email, TRUE))
            r == activate_user_after_read(activation_codes, users, user,
                                          activation_code, c, now)
        IN  /\ assert_not_activated(user)
            /\ activation_codes' = r.table
            /\ users' = r.users
            /\ last' = CallOf("activate_user", email, Some(user), activation_code, c,
                              r.res, None, r.ret, r.stmt, -1, TRUE, None, None)
            /\ prev' = Before
            /\ incs' = IncsAfter(r.table, email, r.stmt)
            /\ UNCHANGED <<now, pc, req>>

NextFault ==
    \/ Next
    \/ \E email \in Emails : GetReadFails(email)
    \/ \E email \in Emails : ActivateUserReadFails(email)

SpecFault == Init /\ [][NextFault]_vars

(***************************************************************************)
(* Interleaved requests.  get and activate_user run two statements on the  *)
(* connection: the SELECT of read, then at most one of the upsert of       *)
(* create, the UPDATE of increase_attempt_counter and the UPDATE of        *)
(* user::activate.  Another request, purge, delete or the clock can come   *)
(* in between the two.                                                     *)
(***************************************************************************)
Request(email, user, code, c) ==
    [email |-> email, user |-> user, code |-> code, c |-> c]

\* get up to and including read.  With an activated user it returns at once.
GetRead(p, email) ==
    /\ pc[p] = "idle"
    /\ \E user \in Snapshots(email) :
        IF assert_not_activated(user)
        THEN /\ pc' = [pc EXCEPT ![p] = "get"]
             /\ req' = [req EXCEPT ![p] =
                            Some(Request(email, user, 0, read(activation_codes, email)))]
             /\ last' = Call("read", email, Some(user), 0,
                             read(activation_codes, email), "", None, None, "none", -1)
        ELSE /\ last' = Call("get", email, Some(user), 0, None,
                             get(activation_codes, user, now, MIN_VALUE).res,
                             None, None, "none", -1)
             /\ UNCHANGED <<pc, req>>
    /\ prev' = Before
    /\ UNCHANGED <<users, activation_codes, now, incs>>

\* get from the match on: create or increase_attempt_counter.
GetWrite(p) ==
    /\ pc[p] = "get"
    /\ \E random_code \in gen_range(thread_rng, MIN_VALUE, MAX_VALUE) :
        LET q == Unwrap(req[p])
            r == get_after_read(activation_codes, q.email, q.c, now, random_code)
        IN  /\ activation_codes' = r.table
            /\ last' = Call("get", q.email, Some(q.user), 0, q.c,
                            r.res, r.ret, None, r.stmt, -1)
            /\ incs' = IncsAfter(r.table, q.email, r.stmt)
    /\ prev' = Before
    /\ pc' = [pc EXCEPT ![p] = "idle"]
    /\ req' = [req EXCEPT ![p] = None]
    /\ UNCHANGED <<users, now>>

\* activate_user up to and including read.
ActivateRead(p, email) ==
    /\ pc[p] = "idle"
    /\ \E user \in Snapshots(email), activation_code \in SubmittedCodes :
        IF assert_not_activated(user)
        THEN /\ pc' = [pc EXCEPT ![p] = "activate_user"]
             /\ req' = [req EXCEPT ![p] =
                            Some(Request(email, user, activation_code,
                                         read(activation_codes, email)))]
             /\ last' = Call("read", email, Some(user), activation_code,
                             read(activation_codes, email), "", None, None, "none", -1)
        ELSE /\ last' = Call("activate_user", email, Some(user), activation_code, None,
                             activate_user(activation_codes, users, user,
                                           activation_code, now).res,
                             None, None, "none", -1)
             /\ UNCHANGED <<pc, req>>
    /\ prev' = Before
    /\ UNCHANGED <<users, activation_codes, now, incs>>

\* activate_user from the match on: the checks, then user::activate or
\* increase_attempt_counter.
ActivateWrite(p) ==
    /\ pc[p] = "activate_user"
    /\ LET q == Unwrap(req[p])
           r == activate_user_after_read(activation_codes, users, q.user, q.code,
                                         q.c, now)
       IN  /\ activation_codes' = r.table
           /\ users' = r.users
           /\ last' = Call("activate_user", q.email, Some(q.user), q.code, q.c,
                           r.res, None, r.ret, r.stmt, -1)
           /\ incs' = IncsAfter(r.table, q.email, r.stmt)
    /\ prev' = Before
    /\ pc' = [pc EXCEPT ![p] = "idle"]
    /\ req' = [req EXCEPT ![p] = None]
    /\ UNCHANGED now

NextConc ==
    \/ \E email \in ConcEmails : UserCreate(email)
    \/ \E p \in Procs, email \in ConcEmails : GetRead(p, email)
    \/ \E p \in Procs : GetWrite(p)
    \/ \E p \in Procs, email \in ConcEmails : ActivateRead(p, email)
    \/ \E p \in Procs : ActivateWrite(p)
    \/ \E email \in ConcEmails : Delete(email)
    \/ Purge
    \/ Tick

SpecConc == Init /\ [][NextConc]_vars

(***************************************************************************)
(* The users table on its own: user::activate called directly, as its      *)
(* tests do, and user::delete (cli "user delete").  The schema that says   *)
(* what deleting a user does to a stored activation code is not part of    *)
(* the sources, so users are deleted here when they have no stored code.   *)
(***************************************************************************)
UserActivate(email) ==
    \E user \in Snapshots(email) :
        LET r == user_activate(users, user)
        IN  /\ users' = r.users
            /\ last' = Call("user_activate", email, Some(user), 0, None, r.res, None,
                            r.ret, "none", -1)
            /\ prev' = Before
            /\ UNCHANGED <<activation_codes, now, incs, pc, req>>

UserDelete(email) ==
    LET r == user_delete(users, email)
    IN  /\ read(activation_codes, email) = None
        /\ users' = r.users
        /\ last' = Call("user_delete", email, None, 0, None, r.res, None, None, "none", -1)
        /\ prev' = Before
        /\ UNCHANGED <<activation_codes, now, incs, pc, req>>

NextUser ==
    \/ Next
    \/ \E email \in Emails : UserActivate(email)
    \/ \E email \in Emails : UserDelete(email)

SpecUser == Init /\ [][NextUser]_vars

(***************************************************************************)
(* The end of time.  The clock starts MaxTicks expiration periods before   *)
(* the last instant it can hold and runs up to it.                         *)
(***************************************************************************)
InitLate ==
    /\ users = {}
    /\ activation_codes = {}
    /\ now = MAX_DATETIME - MaxTicks * ExpirationMinutes
    /\ last = Call("init", "", None, 0, None, "", None, None, "none", -1)
    /\ prev = [activation_codes |-> {}, users |-> {}, incs |-> [e \in Emails |-> 0]]
    /\ incs = [e \in Emails |-> 0]
    /\ pc = [p \in Procs |-> "idle"]
    /\ req = [p \in Procs |-> None]

TickLate ==
    /\ now < MAX_DATETIME
    /\ now' = now + ExpirationMinutes
    /\ last' = Call("tick", "", None, 0, None, "", None, None, "none", -1)
    /\ prev' = Before
    /\ UNCHANGED <<users, activation_codes, incs, pc, req>>

NextOverflow ==
    \/ \E email \in Emails : UserCreate(email)
    \/ \E email \in Emails : Get(email)
    \/ \E email \in Emails : ActivateUser(email)
    \/ \E email \in Emails : Delete(email)
    \/ Purge
    \/ TickLate

SpecOverflow == InitLate /\ [][NextOverflow]_vars

(***************************************************************************)
(* Requests of two users.  Each request process works for a user of its    *)
(* own, and the statements of the two are interleaved.                     *)
(***************************************************************************)
UserOf(p) == IF p = "p1" THEN "a@x" ELSE "b@x"

NextCross ==
    \/ \E email \in Emails : UserCreate(email)
    \/ \E p \in Procs : GetRead(p, UserOf(p))
    \/ \E p \in Procs : GetWrite(p)
    \/ \E p \in Procs : ActivateRead(p, UserOf(p))
    \/ \E p \in Procs : ActivateWrite(p)
    \/ \E email \in Emails : Delete(email)

SpecCross == Init /\ [][NextCross]_vars

(***************************************************************************)
(* Guessing a code.  A code has been minted for a non-activated user (the  *)
(* state after user::create and get), and from then on only activate_user  *)
(* requests run, interleaved at their statements: every increment of the   *)
(* stored attempts is then one comparison that did not match.              *)
(***************************************************************************)
InitMinted ==
    /\ users = {User("a@x", FALSE)}
    /\ activation_codes = create({}, "a@x", 0, MIN_VALUE).table
    /\ now = 0
    /\ last = Call("init", "", None, 0, None, "", None, None, "none", -1)
    /\ prev = [activation_codes |-> {}, users |-> {}, incs |-> [e \in Emails |-> 0]]
    /\ incs = [e \in Emails |-> 0]
    /\ pc = [p \in Procs |-> "idle"]
    /\ req = [p \in Procs |-> None]

NextGuess ==
    \/ \E p \in Procs, email \in ConcEmails : ActivateRead(p, email)
    \/ \E p \in Procs : ActivateWrite(p)
    \/ Tick

SpecGuess == InitMinted /\ [][NextGuess]_vars

(***************************************************************************)
(* notifications::activate and the registration form of the web            *)
(* application.                                                            *)
(***************************************************************************)
\* The email addresses and passwords a form can carry: those of Emails are
\* well-formed, "invalid" is not; a password can be empty.
FormEmails == Emails \cup {"invalid"}
FormPasswords == {"", "mypass"}

UserForm(email, password) == [email |-> email, password |-> password]

\* app::validate_email, on the samples.
validate_email(email) == email \in Emails

\* ActivationCode::validate: Expired for an expired code, then
\* MaxAttemptsExceeded for an exhausted one, else Ok.
validate(activation_code, t) ==
    IF is_expired(activation_code, t) THEN "Expired"
    ELSE IF attempts_exceeded(activation_code) THEN "MaxAttemptsExceeded"
    ELSE "Ok"

NotificationResult(res, requested) == [res |-> res, requested |-> requested]

\* The mutant of notifications_activate: the user of the code is not checked.
notifications_activate_any_user(user, activation_code, t, delivered) ==
    IF validate(activation_code, t) # "Ok"
    THEN NotificationResult(<<"InvalidActivationCode", validate(activation_code, t)>>, FALSE)
    ELSE IF ~delivered
    THEN NotificationResult(<<"ActivationNotificationNotDelivered">>, TRUE)
    ELSE NotificationResult(<<"Ok">>, TRUE)

\* notifications::activate: the two sanity checks, then the delivery request
\* to Mailgun, which is delivered or not.  requested tells whether the
\* request was made.
notifications_activate(user, activation_code, t, delivered) ==
    IF validate(activation_code, t) # "Ok"
    THEN NotificationResult(<<"InvalidActivationCode", validate(activation_code, t)>>, FALSE)
    ELSE IF user.email # activation_code.email
    THEN NotificationResult(<<"WrongActivationCodeUser">>, FALSE)
    ELSE IF ~delivered
    THEN NotificationResult(<<"ActivationNotificationNotDelivered">>, TRUE)
    ELSE NotificationResult(<<"Ok">>, TRUE)

\* The response of a web handler, with the tables it leaves behind.
Response(status, location, utable, table) ==
    [status |-> status, location |-> location, users |-> utable, table |-> table]

\* register_submit, for a visitor that is not logged in.  password_matches
\* is the outcome of verify_password for an existing user.
register_submit(utable, table, input, password_matches, t, random_code, delivered) ==
    IF ~(validate_email(input.email) /\ input.password # "")
    THEN Response(200, "", utable, table)
    ELSE LET result == user_create(utable, input.email)
         IN  IF result.res = "UserWithEmailAlreadyExists"
             THEN IF password_matches
                  THEN Response(303, "/", utable, table)
                  ELSE Response(500, "", utable, table)
             ELSE LET user == user_create(result.users, input.email)
                  IN  IF user.res # "Ok"
                      THEN Response(500, "", user.users, table)
                      ELSE LET activation_code == get(table, Unwrap(user.ret), t, random_code)
                           IN  IF activation_code.res # "Ok"
                               THEN Response(500, "", user.users, activation_code.table)
                               ELSE IF notifications_activate(
                                           Unwrap(user.ret), Unwrap(activation_code.ret),
                                           t, delivered).res # <<"Ok">>
                               THEN Response(500, "", user.users, activation_code.table)
                               ELSE Response(303, "/user/activate", user.users,
                                             activation_code.table)

\* One POST of the registration form.
RegisterSubmit ==
    \E email \in FormEmails, password \in FormPasswords, password_matches \in BOOLEAN,
       random_code \in gen_range(thread_rng, MIN_VALUE, MAX_VALUE), delivered \in BOOLEAN :
        LET r == register_submit(users, activation_codes, UserForm(email, password),
                                 password_matches, now, random_code, delivered)
        IN  /\ users' = r.users
            /\ activation_codes' = r.table
            /\ last' = Call("register_submit", email, Some(UserForm(email, password)), 0,
                            None, <<r.status, r.location>>, None, None, "none", -1)
            /\ prev' = Before
            /\ incs' = [e \in Emails |->
                            IF read(r.table, e) = read(activation_codes, e)
                            THEN incs[e] ELSE 0]
            /\ UNCHANGED <<now, pc, req>>

\* One call of notifications::activate with a user and a stored code.
NotificationsActivate(email) ==
    \E user \in Snapshots(email), activation_code \in activation_codes,
       delivered \in BOOLEAN :
        LET r == notifications_activate(user, activation_code, now, delivered)
        IN  /\ last' = Call("notifications_activate", email, Some(user), 0,
                            Some(activation_code), r.res, None, None,
                            IF r.requested THEN "post" ELSE "none", -1)
            /\ prev' = Before
            /\ UNCHANGED <<users, activation_codes, now, incs, pc, req>>

(***************************************************************************)
(* The activation form of the web application.  A submitted value is a     *)
(* string, modelled as the sequence of its characters; a character outside *)
(* ASCII is named by its code point.                                       *)
(***************************************************************************)
ActivationFormInput(activation_code) == [activation_code |-> activation_code]

\* The values a form can carry: the code minted, a wrong code, five digits,
\* seven digits, a letter among the digits, the empty string, six digits
\* followed by a line feed, a signed number of six characters, and six
\* ARABIC-INDIC digits.
FormCodes ==
    { <<"1", "0", "0", "0", "0", "0">>,
      <<"9", "9", "9", "9", "9", "9">>,
      <<"1", "2", "3", "4", "5">>,
      <<"1", "0", "0", "0", "0", "0", "0">>,
      <<"1", "0", "0", "0", "0", "a">>,
      << >>,
      <<"1", "0", "0", "0", "0", "0", "U+000A">>,
      <<"+", "1", "0", "0", "0", "0">>,
      <<"U+0661", "U+0660", "U+0660", "U+0660", "U+0660", "U+0660">> }

\* The ASCII digits; the digit at index i has the value i - 1.
AsciiDigits == <<"0", "1", "2", "3", "4", "5", "6", "7", "8", "9">>

IsAsciiDigit(ch) == \E i \in 1..Len(AsciiDigits) : AsciiDigits[i] = ch

\* The class \d of the regex crate: any Unicode decimal digit (Nd).
IsDecimalDigit(ch) == IsAsciiDigit(ch) \/ ch \in {"U+0660", "U+0661"}

\* Regex::new(r"^\d{6}$").is_match: six characters of the class \d from the
\* start of the text to its end ($ does not match before a final line feed).
is_match(text) ==
    /\ Len(text) = 6
    /\ \A i \in 1..Len(text) : IsDecimalDigit(text[i])

I32_MAX == 2147483647

\* The value of a sequence of ASCII digits read as a decimal number.
RECURSIVE Decimal(_)
Decimal(digits) ==
    IF digits = << >> THEN 0
    ELSE Decimal(SubSeq(digits, 1, Len(digits) - 1)) * 10
         + ((CHOOSE i \in 1..Len(AsciiDigits) : AsciiDigits[i] = digits[Len(digits)]) - 1)

\* str::parse::<i32>: an optional sign, then one or more ASCII digits, and a
\* value that fits i32; an error (None) otherwise.
parse(text) ==
    LET signed == text # << >> /\ text[1] \in {"+", "-"}
        digits == IF signed THEN Tail(text) ELSE text
        value == IF signed /\ text[1] = "-" THEN 0 - Decimal(digits) ELSE Decimal(digits)
    IN  IF digits = << >> \/ \E i \in 1..Len(digits) : ~IsAsciiDigit(digits[i])
        THEN None
        ELSE IF value > I32_MAX \/ value < 0 - I32_MAX - 1
        THEN None
        ELSE Some(value)

\* The response of activate_submit: status, the message of the form or of
\* the error, the location of a redirect, the tables left behind, the result
\* of activate_user if it was called, and the statement that ran.
ActivateResponse(status, message, location, utable, table, result, stmt) ==
    [status |-> status, message |-> message, location |-> location,
     users |-> utable, table |-> table, result |-> result, stmt |-> stmt]

\* The mutant of activate_submit: the value is converted without the check
\* of its form.
activate_submit_unvalidated(utable, table, input, session_email, t) ==
    IF parse(input.activation_code) = None
    THEN ActivateResponse(500, "", "", utable, table, None, "none")
    ELSE IF session_email = None \/ user_read(utable, Unwrap(session_email)) = None
    THEN ActivateResponse(403, "Please log in before activating your account.", "",
                          utable, table, None, "none")
    ELSE LET r == activate_user(table, utable,
                                Unwrap(user_read(utable, Unwrap(session_email))),
                                Unwrap(parse(input.activation_code)), t)
         IN  IF r.res = "Ok"
             THEN ActivateResponse(303, "", "/user/login", r.users, r.table,
                                   Some(r.res), r.stmt)
             ELSE ActivateResponse(200, r.res, "", r.users, r.table, Some(r.res), r.stmt)

\* activate_submit, for a visitor that is not logged in: the check of the
\* form of the value, its conversion, the user of the session, activate_user
\* and the response for each of its results.
activate_submit(utable, table, input, session_email, t) ==
    IF ~is_match(input.activation_code)
    THEN ActivateResponse(200, "Please enter a 6-digit number", "",
                          utable, table, None, "none")
    ELSE IF parse(input.activation_code) = None
    THEN ActivateResponse(500, "", "", utable, table, None, "none")
    ELSE IF session_email = None \/ user_read(utable, Unwrap(session_email)) = None
    THEN ActivateResponse(403, "Please log in before activating your account.", "",
                          utable, table, None, "none")
    ELSE LET r == activate_user(table, utable,
                                Unwrap(user_read(utable, Unwrap(session_email))),
                                Unwrap(parse(input.activation_code)), t)
         IN  IF r.res = "Expired"
             THEN ActivateResponse(200, "The expiration code has expired. Please re-send the activation email and try again.",
                                   "", r.users, r.table, Some(r.res), r.stmt)
             ELSE IF r.res = "UserAlreadyActivated"
             THEN ActivateResponse(403, "Please log in before activating your account.",
                                   "", r.users, r.table, Some(r.res), r.stmt)
             ELSE IF r.res = "MaxAttemptsExceeded"
             THEN ActivateResponse(200, "You have exceeded the maximum number of activation attempts. Please try again later.",
                                   "", r.users, r.table, Some(r.res), r.stmt)
             ELSE IF r.res = "InvalidCode"
             THEN ActivateResponse(200, "Incorrect activation code. Please try again.",
                                   "", r.users, r.table, Some(r.res), r.stmt)
             ELSE IF r.res = "Ok"
             THEN ActivateResponse(303, "", "/user/login", r.users, r.table,
                                   Some(r.res), r.stmt)
             ELSE ActivateResponse(500, "", "", r.users, r.table, Some(r.res), r.stmt)

\* One POST of the activation form, with the email the session holds, if any.
ActivateSubmit ==
    \E activation_code \in FormCodes,
       session_email \in {None} \cup {Some(e) : e \in Emails} :
        LET r == activate_submit(users, activation_codes,
                                 ActivationFormInput(activation_code),
                                 session_email, now)
            email == IF IsSome(session_email) THEN Unwrap(session_email) ELSE ""
        IN  /\ users' = r.users
            /\ activation_codes' = r.table
            /\ last' = Call("activate_submit", email,
                            Some(ActivationFormInput(activation_code)), 0, None,
                            <<r.status, r.message>>, r.result, None, r.stmt, -1)
            /\ prev' = Before
            /\ incs' = IncsAfter(r.table, email, r.stmt)
            /\ UNCHANGED <<now, pc, req>>

NextWeb ==
    \/ \E email \in Emails : UserCreate(email)
    \/ \E email \in Emails : Get(email)
    \/ Tick
    \/ RegisterSubmit
    \/ \E email \in Emails : NotificationsActivate(email)

SpecWeb == Init /\ [][NextWeb]_vars

\* One registered user, their codes, the clock and the activation form; the
\* session of a form can also hold the email of a user that does not exist.
NextForm ==
    \/ \E email \in ConcEmails : UserCreate(email)
    \/ \E email \in ConcEmails : Get(email)
    \/ Tick
    \/ ActivateSubmit

SpecForm == Init /\ [][NextForm]_vars

(***************************************************************************)
(* increase_attempt_counter called on its own, as its test does, with an   *)
(* ActivationCode value the caller made up or tampered with.               *)
(***************************************************************************)
\* The largest counter a stored row reaches in the model.
MaxStored == 8

\* The values a caller can pass for a user: the stored row, the stored row
\* with its attempts set back to 0, or, with no stored row, a value that was
\* never saved.
Copies(email) ==
    IF IsSome(read(activation_codes, email))
    THEN LET stored == Unwrap(read(activation_codes, email))
         IN  {stored,
              ActivationCode(stored.email, stored.code, stored.expiration_time, 0)}
    ELSE {ActivationCode(email, MIN_VALUE, now + ExpirationMinutes, 0)}

\* One call of increase_attempt_counter.
IncreaseAttemptCounter(email) ==
    /\ \A r \in activation_codes : r.attempts < MaxStored
    /\ \E c \in Copies(email) :
        LET r == increase_attempt_counter(activation_codes, c)
        IN  /\ activation_codes' = r.table
            /\ last' = Call("increase_attempt_counter", email, None, 0, Some(c),
                            r.res, r.ret, None, r.stmt, -1)
            /\ incs' = IncsAfter(r.table, email, r.stmt)
    /\ prev' = Before
    /\ UNCHANGED <<users, now, pc, req>>

NextCounter ==
    \/ \E email \in Emails : UserCreate(email)
    \/ \E email \in Emails : Get(email)
    \/ \E email \in Emails : IncreaseAttemptCounter(email)
    \/ Tick

SpecCounter == Init /\ [][NextCounter]_vars

(***************************************************************************)
(* What the latest call was given and what it met.                         *)
(***************************************************************************)
\* The stored row of the call's user before and after the call.
PreRow == read(prev.activation_codes, last.email)
PostRow == read(activation_codes, last.email)
\* The stored user before and after the call.
PreUser == user_read(prev.users, last.email)
PostUser == user_read(users, last.email)

\* The latest step was a call of op with a User whose activated flag is flag.
Called(op, flag) ==
    /\ last.op = op
    /\ IsSome(last.user)
    /\ Unwrap(last.user).activated = flag

\* ... and it met a stored row that was not expired at the time of the call.
CalledOnLiveRow(op) ==
    /\ Called(op, FALSE)
    /\ IsSome(PreRow)
    /\ ~is_expired(Unwrap(PreRow), now)

\* ... or one that was expired.
CalledOnExpiredRow(op) ==
    /\ Called(op, FALSE)
    /\ IsSome(PreRow)
    /\ is_expired(Unwrap(PreRow), now)

\* The call changed neither table.
NothingChanged ==
    /\ activation_codes = prev.activation_codes
    /\ users = prev.users

\* A row as create leaves it at the time of the call.
FreshlyMinted(c) ==
    /\ c.email = last.email
    /\ MIN_VALUE <= c.code /\ c.code <= MAX_VALUE
    /\ c.attempts = 0
    /\ c.expiration_time = now + ExpirationMinutes

(***************************************************************************)
(* C1.  After a code is minted for a non-activated user, the first five    *)
(* activate_user calls made in a row with a wrong code each return         *)
(* InvalidCode and store attempts 1, 2, 3, 4, 5; the sixth call returns    *)
(* MaxAttemptsExceeded whether its code is wrong or the stored one, and    *)
(* the user stays non-activated.                                           *)
(***************************************************************************)
C1_SixthCallIsLockedOut ==
    (Called("activate_user", FALSE) /\ PreUser = Some(User(last.email, FALSE)))
    => /\ \A n \in 1..MAX_ATTEMPTS :
            (last.nth = n /\ last.code # Unwrap(PreRow).code)
            => /\ last.res = "InvalidCode"
               /\ PostRow = Some([Unwrap(PreRow) EXCEPT !.attempts = n])
       /\ last.nth = MAX_ATTEMPTS + 1
            => /\ last.res = "MaxAttemptsExceeded"
               /\ PostUser = Some(User(last.email, FALSE))

(***************************************************************************)
(* C2.  After a code is minted (attempts = 0), the first five repeat get   *)
(* calls made in a row each return the stored code and expiration_time     *)
(* with attempts 1, 2, 3, 4, 5.  As stated, the sixth and every later call *)
(* fails with MaxAttemptsExceeded and leaves the stored attempts as they   *)
(* were.                                                                   *)
(***************************************************************************)
C2_FirstFiveRepeatGets ==
    \A n \in 1..MAX_ATTEMPTS :
        (Called("get", FALSE) /\ last.nth = n)
        => /\ last.res = "Ok"
           /\ Unwrap(PreRow).attempts = n - 1
           /\ last.ret = Some([Unwrap(PreRow) EXCEPT !.attempts = n])
           /\ PostRow = last.ret

C2_Original_SixthLeavesAttempts ==
    /\ C2_FirstFiveRepeatGets
    /\ (Called("get", FALSE) /\ last.nth > MAX_ATTEMPTS)
       => /\ last.res = "MaxAttemptsExceeded"
          /\ PostRow = PreRow

\* C2 as amended: the sixth call fails with MaxAttemptsExceeded and raises
\* the stored attempts from 5 to 6; the seventh and every later call fails
\* with MaxAttemptsExceeded and leaves the stored attempts (6) as they were.
C2_RepeatGet ==
    /\ C2_FirstFiveRepeatGets
    /\ (Called("get", FALSE) /\ last.nth = MAX_ATTEMPTS + 1)
       => /\ last.res = "MaxAttemptsExceeded"
          /\ Unwrap(PreRow).attempts = MAX_ATTEMPTS
          /\ PostRow = Some([Unwrap(PreRow) EXCEPT !.attempts = MAX_ATTEMPTS + 1])
    /\ (Called("get", FALSE) /\ last.nth > MAX_ATTEMPTS + 1)
       => /\ last.res = "MaxAttemptsExceeded"
          /\ Unwrap(PreRow).attempts = MAX_ATTEMPTS + 1
          /\ PostRow = PreRow

C2_Witness ==
    /\ Called("get", FALSE)
    /\ last.nth = MAX_ATTEMPTS + 2
    /\ last.res = "MaxAttemptsExceeded"
    /\ Unwrap(PostRow).attempts = MAX_ATTEMPTS + 1

(***************************************************************************)
(* C3.  Every get and every activate_user call (any submitted code) made   *)
(* for a non-activated user whose stored row is exhausted and not expired  *)
(* fails with MaxAttemptsExceeded and changes neither the row nor the      *)
(* user.                                                                   *)
(***************************************************************************)
C3_ExhaustionIsPermanent ==
    \A op \in {"get", "activate_user"} :
        (CalledOnLiveRow(op) /\ attempts_exceeded(Unwrap(PreRow)))
        => /\ last.res = "MaxAttemptsExceeded"
           /\ NothingChanged

C3_Witness ==
    /\ CalledOnLiveRow("activate_user")
    /\ attempts_exceeded(Unwrap(PreRow))
    /\ last.code = Unwrap(PreRow).code
    /\ last.res = "MaxAttemptsExceeded"

(***************************************************************************)
(* C4.  activate_user with the stored code on an unexpired, non-exhausted  *)
(* row of a non-activated user returns Ok with the user activated and      *)
(* stores the flag; every get or activate_user call made with an activated *)
(* user fails with UserAlreadyActivated.                                   *)
(***************************************************************************)
C4_ActivatedExactlyOnce ==
    /\ ( /\ CalledOnLiveRow("activate_user")
         /\ PreUser = Some(User(last.email, FALSE))
         /\ ~attempts_exceeded(Unwrap(PreRow))
         /\ last.code = Unwrap(PreRow).code )
       => /\ last.res = "Ok"
          /\ last.activated_user = Some(User(last.email, TRUE))
          /\ PostUser = Some(User(last.email, TRUE))
    /\ \A op \in {"get", "activate_user"} :
            Called(op, TRUE) => last.res = "UserAlreadyActivated"

C4_Witness ==
    /\ CalledOnLiveRow("activate_user")
    /\ PreUser = Some(User(last.email, FALSE))
    /\ last.res = "Ok"
    /\ PostUser = Some(User(last.email, TRUE))

(***************************************************************************)
(* C5.  get for a non-activated user without a stored row returns Ok with  *)
(* a row of that user whose code is in [100000, 999999], attempts = 0 and  *)
(* expiration_time = now + 30 minutes, and that row is the one row added   *)
(* to the table.                                                           *)
(***************************************************************************)
C5_GetCreates ==
    (Called("get", FALSE) /\ PreRow = None)
    => /\ last.res = "Ok"
       /\ IsSome(last.ret)
       /\ FreshlyMinted(Unwrap(last.ret))
       /\ activation_codes = prev.activation_codes \cup {Unwrap(last.ret)}
       /\ {r \in activation_codes : r.email = last.email} = {Unwrap(last.ret)}

C5_Witness ==
    /\ Called("get", FALSE)
    /\ PreRow = None
    /\ last.res = "Ok"
    /\ Cardinality(activation_codes) = Cardinality(prev.activation_codes) + 1

(***************************************************************************)
(* C6.  get for a non-activated user whose stored row is expired returns   *)
(* Ok with a freshly minted row (attempts = 0, expiration_time = now + 30  *)
(* minutes) that replaces the stored one, whatever its attempts were.      *)
(***************************************************************************)
C6_GetRenewsExpired ==
    CalledOnExpiredRow("get")
    => /\ last.res = "Ok"
       /\ IsSome(last.ret)
       /\ FreshlyMinted(Unwrap(last.ret))
       /\ activation_codes =
            (prev.activation_codes \ {Unwrap(PreRow)}) \cup {Unwrap(last.ret)}

C6_Witness ==
    /\ CalledOnExpiredRow("get")
    /\ attempts_exceeded(Unwrap(PreRow))
    /\ last.res = "Ok"
    /\ Unwrap(PostRow).attempts = 0

(***************************************************************************)
(* C7.  activate_user for a non-activated user whose stored row is expired *)
(* returns Expired for every submitted code and every attempts value, and  *)
(* changes neither the row nor the user.                                   *)
(***************************************************************************)
C7_ExpiredBeforeAll ==
    CalledOnExpiredRow("activate_user")
    => /\ last.res = "Expired"
       /\ NothingChanged

C7_Witness ==
    /\ CalledOnExpiredRow("activate_user")
    /\ attempts_exceeded(Unwrap(PreRow))
    /\ last.code = Unwrap(PreRow).code
    /\ last.res = "Expired"

(***************************************************************************)
(* C8.  activate_user for a non-activated user without a stored row fails  *)
(* with Expired for every submitted code, creates no row and does not      *)
(* activate the user.                                                      *)
(***************************************************************************)
C8_NoRowIsExpired ==
    (Called("activate_user", FALSE) /\ PreRow = None)
    => /\ last.res = "Expired"
       /\ PostRow = None
       /\ NothingChanged

C8_Witness ==
    /\ Called("activate_user", FALSE)
    /\ PreRow = None
    /\ PreUser = Some(User(last.email, FALSE))
    /\ last.res = "Expired"

(***************************************************************************)
(* C9.  get and activate_user called with an activated user fail with      *)
(* UserAlreadyActivated whatever is stored and whatever code is submitted, *)
(* run no statement and change no table.                                   *)
(***************************************************************************)
C9_ActivatedUserRejected ==
    \A op \in {"get", "activate_user"} :
        Called(op, TRUE)
        => /\ last.res = "UserAlreadyActivated"
           /\ last.stmt = "none"
           /\ NothingChanged

C9_Witness ==
    /\ Called("activate_user", TRUE)
    /\ IsSome(PreRow)
    /\ ~is_expired(Unwrap(PreRow), now)
    /\ ~attempts_exceeded(Unwrap(PreRow))
    /\ last.code = Unwrap(PreRow).code
    /\ last.res = "UserAlreadyActivated"

(***************************************************************************)
(* C10.  When interleaved requests increment the same row no update is     *)
(* lost: the stored attempts of every row equal the number of increments   *)
(* run on it since it was minted, and a request that runs the increment    *)
(* finds the stored counter one higher than it was just before its         *)
(* statement and decides on that value: MaxAttemptsExceeded if it exceeds  *)
(* MAX_ATTEMPTS, Ok (get) or InvalidCode (activate_user) if not.           *)
(***************************************************************************)
C10_NoLostUpdate ==
    /\ \A r \in activation_codes : r.attempts = incs[r.email]
    /\ (last.op \in {"get", "activate_user"} /\ last.stmt = "update")
       => /\ IsSome(PreRow) /\ IsSome(PostRow)
          /\ Unwrap(PostRow).attempts = Unwrap(PreRow).attempts + 1
          /\ last.res = IF attempts_exceeded(Unwrap(PostRow)) THEN "MaxAttemptsExceeded"
                        ELSE IF last.op = "get" THEN "Ok"
                        ELSE "InvalidCode"
          /\ last.op = "get" /\ last.res = "Ok" => last.ret = PostRow

\* A request incremented a row that another request had incremented since
\* this one read it.
C10_Witness ==
    /\ last.op \in {"get", "activate_user"}
    /\ last.stmt = "update"
    /\ IsSome(last.c)
    /\ IsSome(PreRow)
    /\ Unwrap(PreRow).expiration_time = Unwrap(last.c).expiration_time
    /\ Unwrap(PreRow).attempts = Unwrap(last.c).attempts + 1
    /\ Unwrap(PostRow).attempts = Unwrap(last.c).attempts + 2

(***************************************************************************)
(* C11.  Of two interleaved get requests for the same non-activated user   *)
(* at most one mints: a mint never overwrites a stored row that is not     *)
(* expired, so a code returned Ok to one caller is not replaced by the     *)
(* other caller's mint while it is live.                                   *)
(***************************************************************************)
C11_AtMostOneMints ==
    (last.op = "get" /\ last.stmt = "insert")
    => (PreRow = None \/ is_expired(Unwrap(PreRow), now))

(***************************************************************************)
(* C12.  In every reachable state, after any interleaving of get,          *)
(* activate_user, delete and purge, there is at most one activation-code   *)
(* row per user.                                                           *)
(***************************************************************************)
C12_OneRowPerUser ==
    \A e \in Emails : Cardinality({r \in activation_codes : r.email = e}) <= 1

\* A mint met a stored row that differs from the one it writes.
C12_Witness ==
    /\ last.op = "get"
    /\ last.stmt = "insert"
    /\ IsSome(PreRow)
    /\ PreRow # last.ret
    /\ {r \in activation_codes : r.email = last.email} = {Unwrap(last.ret)}

(***************************************************************************)
(* C13.  Any step that changes a stored row or adds one is either a mint   *)
(* (the upsert of create, which writes code, expiration_time and           *)
(* attempts = 0 together) or leaves code and expiration_time as they were  *)
(* and raises attempts: between two mints attempts never decrease, and     *)
(* nothing but a mint sets code or expiration_time.                        *)
(***************************************************************************)
C13_AttemptsMonotonic ==
    \A e \in Emails :
        LET before == read(prev.activation_codes, e)
            after == read(activation_codes, e)
        IN  (IsSome(after) /\ after # before)
            => \/ /\ last.op = "get" /\ last.email = e /\ last.stmt = "insert"
                  /\ after = last.ret
                  /\ FreshlyMinted(Unwrap(after))
               \/ /\ IsSome(before)
                  /\ last.stmt = "update"
                  /\ Unwrap(after).code = Unwrap(before).code
                  /\ Unwrap(after).expiration_time = Unwrap(before).expiration_time
                  /\ Unwrap(after).attempts > Unwrap(before).attempts

\* A mint reset a counter that had been raised, with a new expiration_time.
C13_Witness ==
    /\ last.op = "get"
    /\ last.stmt = "insert"
    /\ IsSome(PreRow)
    /\ Unwrap(PreRow).attempts > 0
    /\ Unwrap(PostRow).attempts = 0
    /\ Unwrap(PostRow).expiration_time # Unwrap(PreRow).expiration_time

(***************************************************************************)
(* C14.  Interleaved mints for one user do not mix: right after a mint the *)
(* one stored row of the user is the row that mint returned (its code, its *)
(* expiration_time, attempts = 0), whatever another mint wrote before, and *)
(* any step that is not a mint leaves the code and the expiration_time of  *)
(* every row that it keeps.                                                *)
(***************************************************************************)
C14_MintWritesWholeRow ==
    /\ (last.op = "get" /\ last.stmt = "insert")
       => /\ IsSome(last.ret)
          /\ FreshlyMinted(Unwrap(last.ret))
          /\ {r \in activation_codes : r.email = last.email} = {Unwrap(last.ret)}
          /\ incs[last.email] = 0
    /\ last.stmt # "insert"
       => \A r \in activation_codes : \E b \in prev.activation_codes :
              /\ b.email = r.email
              /\ b.code = r.code
              /\ b.expiration_time = r.expiration_time

\* A request minted over the live row that another request had minted after
\* this one had read.
C14_Witness ==
    /\ last.op = "get"
    /\ last.stmt = "insert"
    /\ last.c = None
    /\ IsSome(PreRow)
    /\ ~is_expired(Unwrap(PreRow), now)
    /\ PreRow # last.ret
    /\ PostRow = last.ret

(***************************************************************************)
(* C15.  When the query of read fails in a get or activate_user call made  *)
(* while a row is stored, the call returns a storage-failure error of its  *)
(* own: it is not one of the results of the state machine (Ok, Expired,    *)
(* InvalidCode, MaxAttemptsExceeded, UserAlreadyActivated), no code is     *)
(* minted and nothing is changed.                                          *)
(***************************************************************************)
C15_ReadFailurePropagates ==
    (last.op \in {"get", "activate_user"} /\ last.fault /\ IsSome(PreRow))
    => /\ last.res \notin {"Ok", "Expired", "InvalidCode", "MaxAttemptsExceeded",
                           "UserAlreadyActivated"}
       /\ last.stmt # "insert"
       /\ NothingChanged

(***************************************************************************)
(* C16.  A code is expired exactly when now >= expiration_time: at the     *)
(* instant now = expiration_time is_expired is true, activate_user returns *)
(* Expired even for the stored code, and get mints a new code instead of   *)
(* returning the stored one.                                               *)
(***************************************************************************)
C16_ExpiredAtExpirationTime ==
    \A op \in {"get", "activate_user"} :
        ( /\ Called(op, FALSE)
          /\ IsSome(PreRow)
          /\ now = Unwrap(PreRow).expiration_time )
        => /\ is_expired(Unwrap(PreRow), now)
           /\ op = "activate_user" => last.res = "Expired"
           /\ op = "get" => /\ last.stmt = "insert"
                            /\ FreshlyMinted(Unwrap(PostRow))

(***************************************************************************)
(* C17.  purge deletes every row whose expiration_time has passed          *)
(* (expiration_time < now), of any user and whatever its attempts or the   *)
(* user's activated flag, leaves every other row and the users as they     *)
(* were, and a second purge at the same time would change nothing.         *)
(***************************************************************************)
C17_PurgeRemovesExpired ==
    last.op = "purge"
    => /\ activation_codes = {r \in prev.activation_codes : ~is_expired(r, now)}
       /\ users = prev.users
       /\ purge(activation_codes, now) = activation_codes

\* purge removed the expired row of an activated user and kept a live row.
C17_Witness ==
    /\ last.op = "purge"
    /\ \E r \in prev.activation_codes \ activation_codes :
            /\ is_expired(r, now)
            /\ User(r.email, TRUE) \in users
    /\ \E r \in activation_codes : r \in prev.activation_codes

(***************************************************************************)
(* C18.  delete returns Ok and removes the stored row of the given user,   *)
(* if there is one, and nothing else; without a stored row it returns Ok   *)
(* and changes nothing, so a second delete changes nothing; it does so     *)
(* for an activated user as for a non-activated one.                       *)
(***************************************************************************)
C18_DeleteIsIdempotent ==
    last.op = "delete"
    => /\ last.res = "Ok"
       /\ activation_codes = {r \in prev.activation_codes : r.email # last.email}
       /\ users = prev.users
       /\ PostRow = None
       /\ PreRow = None => NothingChanged
       /\ delete(activation_codes, Unwrap(last.user)) = activation_codes

\* delete, called with an activated user, removed the stored row.
C18_Witness ==
    /\ Called("delete", TRUE)
    /\ IsSome(PreRow)
    /\ PostRow = None
    /\ last.res = "Ok"

(***************************************************************************)
(* C19.  A get for a non-activated user made right after a delete for the  *)
(* same user does what get does without a stored row: it returns Ok with a *)
(* freshly minted row (attempts = 0, expiration_time = now + 30 minutes),  *)
(* the one row added to the table, whether the deleted row was live,       *)
(* expired or exhausted, or there was none.                                *)
(***************************************************************************)
C19_DeleteThenGet ==
    (Called("get", FALSE) /\ IsSome(last.deleted))
    => /\ PreRow = None
       /\ last.res = "Ok"
       /\ IsSome(last.ret)
       /\ FreshlyMinted(Unwrap(last.ret))
       /\ activation_codes = prev.activation_codes \cup {Unwrap(last.ret)}
       /\ PostRow = last.ret

\* The row deleted before the get was live and exhausted.
C19_Witness ==
    /\ Called("get", FALSE)
    /\ IsSome(last.deleted)
    /\ IsSome(Unwrap(last.deleted))
    /\ attempts_exceeded(Unwrap(Unwrap(last.deleted)))
    /\ ~is_expired(Unwrap(Unwrap(last.deleted)), now)
    /\ last.res = "Ok"
    /\ Unwrap(PostRow).attempts = 0

(***************************************************************************)
(* C20.  An activate_user call that succeeds (the submitted code is the    *)
(* stored one) does not count as an attempt: the activation_codes table is *)
(* the same before and after the call, and in the users table only the     *)
(* activated flag of the call's user changes.                              *)
(***************************************************************************)
C20_SuccessLeavesRow ==
    (Called("activate_user", FALSE) /\ last.res = "Ok")
    => /\ IsSome(PreRow)
       /\ last.code = Unwrap(PreRow).code
       /\ activation_codes = prev.activation_codes
       /\ PostRow = PreRow
       /\ last.stmt = "activate"
       /\ users = {IF u.email = last.email THEN User(u.email, TRUE) ELSE u :
                      u \in prev.users}

\* A success after failed attempts: the counter stays where it was.
C20_Witness ==
    /\ Called("activate_user", FALSE)
    /\ last.res = "Ok"
    /\ PreUser = Some(User(last.email, FALSE))
    /\ PostUser = Some(User(last.email, TRUE))
    /\ Unwrap(PreRow).attempts > 0
    /\ PostRow = PreRow

(***************************************************************************)
(* C21.  Lockout ends with the code: a get for a non-activated user whose  *)
(* stored row is exhausted and expired mints a new code with attempts = 0, *)
(* and an activate_user call made next with that new code returns Ok with  *)
(* the user activated.                                                     *)
(***************************************************************************)
C21_LockoutEndsWithExpiry ==
    /\ (CalledOnExpiredRow("get") /\ attempts_exceeded(Unwrap(PreRow)))
       => /\ last.res = "Ok"
          /\ last.stmt = "insert"
          /\ PostRow = last.ret
          /\ Unwrap(PostRow).attempts = 0
    /\ ( /\ Called("activate_user", FALSE)
         /\ IsSome(last.minted_over)
         /\ IsSome(Unwrap(last.minted_over))
         /\ attempts_exceeded(Unwrap(Unwrap(last.minted_over)))
         /\ IsSome(PreRow)
         /\ last.code = Unwrap(PreRow).code )
       => /\ last.res = "Ok"
          /\ last.activated_user = Some(User(last.email, TRUE))
          /\ PostUser = Some(User(last.email, TRUE))

\* A user that was locked out got a new code and activated with it.
C21_Witness ==
    /\ Called("activate_user", FALSE)
    /\ IsSome(last.minted_over)
    /\ IsSome(Unwrap(last.minted_over))
    /\ attempts_exceeded(Unwrap(Unwrap(last.minted_over)))
    /\ PreUser = Some(User(last.email, FALSE))
    /\ last.res = "Ok"
    /\ PostUser = Some(User(last.email, TRUE))

(***************************************************************************)
(* C22.  The codes a mint can write are exactly the integers of the        *)
(* inclusive range 100000..999999: the code of every minted row lies in    *)
(* the range, and each value of the range that the random source can       *)
(* produce, both ends 100000 and 999999 included, is one the mint can      *)
(* draw.                                                                   *)
(***************************************************************************)
C22_MintableRange ==
    (last.op = "get" /\ last.stmt = "insert")
    => /\ MIN_VALUE <= Unwrap(last.ret).code
       /\ Unwrap(last.ret).code <= MAX_VALUE
       /\ \A v \in thread_rng :
              (MIN_VALUE <= v /\ v <= MAX_VALUE)
              => v \in gen_range(thread_rng, MIN_VALUE, MAX_VALUE)

(***************************************************************************)
(* C23.  A get, activate_user or delete call for one user neither reads    *)
(* nor changes the row of another user: the row a request holds from its   *)
(* read is a row of its own user, and every statement of the call leaves   *)
(* the rows of all other users as they were, however the statements of     *)
(* requests for different users are interleaved.                           *)
(***************************************************************************)
C23_OtherRowsUntouched ==
    /\ \A p \in Procs :
            (IsSome(req[p]) /\ IsSome(Unwrap(req[p]).c))
            => Unwrap(Unwrap(req[p]).c).email = Unwrap(req[p]).email
    /\ last.op \in {"read", "get", "activate_user", "delete"}
       => \A r \in prev.activation_codes \cup activation_codes :
              r.email # last.email
              => (r \in prev.activation_codes /\ r \in activation_codes)

\* A request of one user incremented its row between the read and the write
\* of a request of another user, whose row is live.
C23_Witness ==
    /\ last.op \in {"get", "activate_user"}
    /\ last.stmt = "update"
    /\ \E p \in Procs :
            /\ IsSome(req[p])
            /\ Unwrap(req[p]).email # last.email
            /\ IsSome(Unwrap(req[p]).c)
            /\ Unwrap(req[p]).c = read(activation_codes, Unwrap(req[p]).email)

(***************************************************************************)
(* C24.  When now + 30 minutes cannot be represented, a get that has to    *)
(* mint (no stored row, or an expired one) fails with                      *)
(* ExpirationTimeOverflow, runs no statement and leaves both tables as     *)
(* they were; no stored row has an expiration_time beyond the last         *)
(* representable instant.                                                  *)
(***************************************************************************)
C24_OverflowWritesNothing ==
    /\ ( /\ Called("get", FALSE)
         /\ PreRow = None \/ is_expired(Unwrap(PreRow), now)
         /\ checked_add_signed(now, ExpirationMinutes) = None )
       => /\ last.res = "ExpirationTimeOverflow"
          /\ last.ret = None
          /\ last.stmt = "none"
          /\ NothingChanged
    /\ \A r \in activation_codes : r.expiration_time <= MAX_DATETIME

\* The mint that overflowed was to replace an expired row, which stays.
C24_Witness ==
    /\ CalledOnExpiredRow("get")
    /\ last.res = "ExpirationTimeOverflow"
    /\ PostRow = PreRow

(***************************************************************************)
(* C25.  user::activate called with a non-activated user stores and        *)
(* returns activated = true; called with an activated user it returns Ok   *)
(* with the user as passed and changes nothing; and no step of any         *)
(* operation leaves a stored user that was activated with activated =      *)
(* false.                                                                  *)
(***************************************************************************)
C25_ActivateIsIdempotent ==
    /\ (Called("user_activate", FALSE) /\ IsSome(PreUser))
       => /\ last.res = "Ok"
          /\ last.activated_user = Some(User(last.email, TRUE))
          /\ PostUser = Some(User(last.email, TRUE))
    /\ Called("user_activate", TRUE)
       => /\ last.res = "Ok"
          /\ last.activated_user = last.user
          /\ NothingChanged
    /\ last.op = "user_activate" => activation_codes = prev.activation_codes
    /\ \A u \in prev.users :
            (u.activated /\ IsSome(user_read(users, u.email)))
            => Unwrap(user_read(users, u.email)).activated

\* user::activate was called with an activated user.
C25_Witness ==
    /\ Called("user_activate", TRUE)
    /\ last.res = "Ok"
    /\ last.activated_user = Some(User(last.email, TRUE))
    /\ PostUser = Some(User(last.email, TRUE))

(***************************************************************************)
(* C26.  A POST of the registration form with a well-formed email address  *)
(* that is not registered yet and a non-empty password creates a user with *)
(* activated = false, issues an activation code for it and answers with a  *)
(* 303 redirect to /user/activate.                                         *)
(***************************************************************************)
C26_RegisterRedirectsToActivate ==
    ( /\ last.op = "register_submit"
      /\ validate_email(last.email)
      /\ Unwrap(last.user).password # ""
      /\ PreUser = None )
    => /\ last.res = <<303, "/user/activate">>
       /\ PostUser = Some(User(last.email, FALSE))
       /\ IsSome(PostRow)

C28_AtMostSixComparisons ==
    /\ \A r \in activation_codes : r.attempts <= MAX_ATTEMPTS + 1
    /\ (last.op = "activate_user" /\ last.stmt \in {"update", "activate"})
       => Unwrap(PreRow).attempts <= MAX_ATTEMPTS

(***************************************************************************)
(* C29.  Whenever activate_user sets the activated flag of a user, the     *)
(* store holds at that moment a row of that user that is not expired, not  *)
(* exhausted and whose code is the submitted one, whatever delete, purge,  *)
(* get or other activate_user calls ran between the call's read and its    *)
(* activation.                                                             *)
(***************************************************************************)
C29_ActivationHasLiveRow ==
    (last.op = "activate_user" /\ last.stmt = "activate" /\ last.res = "Ok")
    => /\ IsSome(PostRow)
       /\ ~is_expired(Unwrap(PostRow), now)
       /\ ~attempts_exceeded(Unwrap(PostRow))
       /\ Unwrap(PostRow).code = last.code

(***************************************************************************)
(* C30.  In every reachable state, under any interleaving of get and       *)
(* activate_user calls, the stored attempts of every row are between 0 and *)
(* MAX_ATTEMPTS + 1 = 6.                                                   *)
(***************************************************************************)
C30_AttemptsBounded ==
    \A r \in activation_codes : 0 <= r.attempts /\ r.attempts <= MAX_ATTEMPTS + 1

(***************************************************************************)
(* C31.  No activation-code row is minted or incremented for a user whose  *)
(* stored activated flag is true: a get or activate_user call made for     *)
(* such a user, also with a User value read before the user was            *)
(* activated, leaves the activation_codes table as it was.                 *)
(***************************************************************************)
C31_NoRowForActivatedUser ==
    (last.op \in {"get", "activate_user"} /\ PreUser = Some(User(last.email, TRUE)))
    => /\ last.stmt \notin {"insert", "update"}
       /\ activation_codes = prev.activation_codes

(***************************************************************************)
(* C32.  Every row that get returns as Ok belongs to the requested user,   *)
(* has attempts between 0 and MAX_ATTEMPTS, and is the row stored for that *)
(* user right after the statement get wrote with, whatever other requests  *)
(* did between get's read and that statement.                              *)
(***************************************************************************)
C32_GetReturnsStoredRow ==
    (last.op = "get" /\ last.res = "Ok")
    => /\ IsSome(last.ret)
       /\ Unwrap(last.ret).email = last.email
       /\ 0 <= Unwrap(last.ret).attempts
       /\ Unwrap(last.ret).attempts <= MAX_ATTEMPTS
       /\ ~attempts_exceeded(Unwrap(last.ret))
       /\ last.stmt \in {"insert", "update"}
       /\ PostRow = last.ret

\* get returned Ok with a counter that differs from its copy's by more than
\* one: other requests incremented the row between get's read and its update.
C32_Witness ==
    /\ last.op = "get" /\ last.res = "Ok" /\ last.stmt = "update"
    /\ IsSome(last.c)
    /\ Unwrap(last.ret).attempts > Unwrap(last.c).attempts + 1

(***************************************************************************)
(* C33.  activate_user never creates or deletes an activation-code row and *)
(* never changes a row's code or expiration_time.  A failing call leaves   *)
(* the users table alone and changes at most the attempts of its user's    *)
(* row, by exactly 1.  A call that fails with UserAlreadyActivated, with   *)
(* Expired, or with MaxAttemptsExceeded on a row it read as exhausted      *)
(* changes nothing.                                                        *)
(***************************************************************************)
C33_ActivateUserFrame ==
    last.op = "activate_user"
    => /\ {r.email : r \in activation_codes} = {r.email : r \in prev.activation_codes}
       /\ \A r \in activation_codes : \E o \in prev.activation_codes :
              /\ o.email = r.email
              /\ o.code = r.code
              /\ o.expiration_time = r.expiration_time
              /\ (o.email # last.email => o.attempts = r.attempts)
       /\ (last.res # "Ok"
            => /\ users = prev.users
               /\ \/ activation_codes = prev.activation_codes
                  \/ /\ IsSome(PreRow) /\ IsSome(PostRow)
                     /\ Unwrap(PostRow).attempts = Unwrap(PreRow).attempts + 1)
       /\ (\/ last.res \in {"UserAlreadyActivated", "Expired"}
           \/ /\ last.res = "MaxAttemptsExceeded"
              /\ IsSome(last.c)
              /\ attempts_exceeded(Unwrap(last.c))
            => NothingChanged)

\* A failing activate_user incremented the counter of its user's row by one.
C33_Witness ==
    /\ last.op = "activate_user"
    /\ last.res \in {"InvalidCode", "MaxAttemptsExceeded"}
    /\ last.stmt = "update"
    /\ IsSome(PreRow) /\ IsSome(PostRow)
    /\ Unwrap(PostRow).attempts = Unwrap(PreRow).attempts + 1

(***************************************************************************)
(* C34.  purge is observationally transparent.  The rows a purge removed   *)
(* are exactly those is_expired reports at that instant, and for every     *)
(* user, every User value a caller can hold, every submitted code and      *)
(* every code drawn, activate_user and get called right after the purge    *)
(* give the result (and, for get, the returned row and the user's stored   *)
(* row) they give on the table as it was before the purge.                 *)
(***************************************************************************)
C34_PurgeIsTransparent ==
    last.op = "purge"
    => /\ activation_codes = {r \in prev.activation_codes : ~is_expired(r, now)}
       /\ \A email \in Emails : \A user \in Snapshots(email) :
              /\ \A activation_code \in SubmittedCodes :
                    LET unpurged == activate_user(prev.activation_codes, users, user,
                                                  activation_code, now)
                        purged == activate_user(activation_codes, users, user,
                                                activation_code, now)
                    IN  /\ unpurged.res = purged.res
                        /\ unpurged.ret = purged.ret
                        /\ unpurged.users = purged.users
              /\ \A random_code \in gen_range(thread_rng, MIN_VALUE, MAX_VALUE) :
                    LET unpurged == get(prev.activation_codes, user, now, random_code)
                        purged == get(activation_codes, user, now, random_code)
                    IN  /\ unpurged.res = purged.res
                        /\ unpurged.ret = purged.ret
                        /\ read(purge(unpurged.table, now), email)
                               = read(purge(purged.table, now), email)
                        /\ (purged.res = "Ok"
                            => read(unpurged.table, email) = read(purged.table, email))

\* A purge removed the expired row of a user who is not activated, and left
\* a row of another user whose expiration_time is the present instant.
C34_Witness ==
    /\ last.op = "purge"
    /\ \E r \in prev.activation_codes :
          /\ r \notin activation_codes
          /\ User(r.email, FALSE) \in users
    /\ \E r \in activation_codes : r.expiration_time = now

(***************************************************************************)
(* C35.  In the web activation form, a submitted value that is not exactly *)
(* six decimal digits is answered with the form and the message "Please    *)
(* enter a 6-digit number" before the store is consulted, and no value     *)
(* other than six ASCII digits reaches activate_user: no attempts are      *)
(* incremented and no user is activated.                                   *)
(***************************************************************************)
C35_MalformedValueRejected ==
    last.op = "activate_submit"
    => LET text == Unwrap(last.user).activation_code
           six(digit(_)) == Len(text) = 6 /\ \A i \in 1..Len(text) : digit(text[i])
           ascii(ch) == ch \in {"0", "1", "2", "3", "4", "5", "6", "7", "8", "9"}
           decimal(ch) == ascii(ch) \/ ch \in {"U+0660", "U+0661"}
       IN  /\ (~six(decimal) => last.res = <<200, "Please enter a 6-digit number">>)
           /\ (~six(ascii)
               => /\ last.ret = None
                  /\ last.stmt = "none"
                  /\ NothingChanged)

\* A value of five digits was submitted in the session of a user who is not
\* activated and whose stored row is live, and was answered with the message.
C35_Witness ==
    /\ last.op = "activate_submit"
    /\ Len(Unwrap(last.user).activation_code) = 5
    /\ PreUser = Some(User(last.email, FALSE))
    /\ IsSome(PreRow)
    /\ ~is_expired(Unwrap(PreRow), now)
    /\ last.res = <<200, "Please enter a 6-digit number">>

(***************************************************************************)
(* C36.  The attempt limit cannot be bypassed through the caller's copy:   *)
(* increase_attempt_counter called with an ActivationCode whose attempts   *)
(* were set back to 0, while the stored row is exhausted, runs the update  *)
(* and returns MaxAttemptsExceeded with no row, as the counter the store   *)
(* returned exceeds the limit.                                             *)
(***************************************************************************)
C36_TamperedCopyStillExceeded ==
    (/\ last.op = "increase_attempt_counter"
     /\ IsSome(PreRow)
     /\ Unwrap(PreRow).attempts >= MAX_ATTEMPTS
     /\ Unwrap(last.c).attempts = 0)
    => /\ last.res = "MaxAttemptsExceeded"
       /\ last.ret = None
       /\ last.stmt = "update"
       /\ Unwrap(PostRow).attempts = Unwrap(PreRow).attempts + 1

\* increase_attempt_counter was called with attempts 0 on a stored row that
\* earlier calls had taken beyond the limit.
C36_Witness ==
    /\ last.op = "increase_attempt_counter"
    /\ IsSome(PreRow)
    /\ attempts_exceeded(Unwrap(PreRow))
    /\ Unwrap(last.c).attempts = 0
    /\ last.res = "MaxAttemptsExceeded"

====
